---- MODULE Spec2Model ----
(***************************************************************************)
(* Fetch-and-reconcile subsystem of the US Constitutional Research Agent:  *)
(* CaseFetcher (src/pipeline/fetcher.py), the landmark table               *)
(* (src/sources/scotus.py), the statute gap detection of the Synthesizer   *)
(* (src/pipeline/synthesizer.py) and the research pipeline (src/main.py).  *)
(*                                                                         *)
(* A Python str is modelled as a sequence of one-character strings, so     *)
(* that lower(), strip(), replace(), split() and the regular expressions   *)
(* are computed character by character as the code computes them.          *)
(***************************************************************************)
EXTENDS Integers, Sequences, FiniteSets, TLC

----------------------------------------------------------------------------
(* Python str primitives                                                   *)

UpperLetters == <<"A","B","C","D","E","F","G","H","I","J","K","L","M","N","O","P","Q","R","S","T","U","V","W","X","Y","Z">>

LowerLetters == <<"a","b","c","d","e","f","g","h","i","j","k","l","m","n","o","p","q","r","s","t","u","v","w","x","y","z">>

Digits == {"0","1","2","3","4","5","6","7","8","9"}

\* characters str.strip() and str.split() treat as whitespace
Whitespace == {" ", "\t", "\n"}

\* the characters the pattern [^a-z0-9 ] keeps
AlnumSpace == {LowerLetters[i] : i \in 1..26} \cup Digits \cup {" "}

\* str.lower() on one character
LowerMap ==
  [c \in {UpperLetters[i] : i \in 1..26} |->
     LowerLetters[CHOOSE i \in 1..26 : UpperLetters[i] = c]]

LowerChar(c) == IF c \in DOMAIN LowerMap THEN LowerMap[c] ELSE c

\* str.lower()
Lower(s) == [i \in 1..Len(s) |-> LowerChar(s[i])]

\* the least and the greatest element of a non-empty set of integers
Min(S) == CHOOSE i \in S : \A j \in S : i <= j

Max(S) == CHOOSE i \in S : \A j \in S : i >= j

\* str.strip(): drop the leading and the trailing whitespace
Strip(s) ==
  LET keep == {i \in 1..Len(s) : s[i] \notin Whitespace}
  IN  IF keep = {} THEN <<>>
      ELSE SubSeq(s, Min(keep), Max(keep))

\* s[i:].startswith(p), i counted from 1
StartsWithAt(s, i, p) ==
  i + Len(p) - 1 <= Len(s) /\ \A k \in 1..Len(p) : s[i + k - 1] = p[k]

\* s[:n]
Prefix(s, n) == IF Len(s) <= n THEN s ELSE SubSeq(s, 1, n)

\* a in b
Contains(a, b) == \E i \in 1..(Len(b) - Len(a) + 1) : StartsWithAt(b, i, a)

\* position of the leftmost occurrence of p in s at or after position from,
\* 0 if there is none
Find(s, from, p) ==
  LET at == {i \in from..(Len(s) - Len(p) + 1) : StartsWithAt(s, i, p)}
  IN  IF at = {} THEN 0 ELSE Min(at)

RECURSIVE ReplaceFrom(_, _, _, _)
ReplaceFrom(s, from, old, new) ==
  LET i == Find(s, from, old)
  IN  IF i = 0 THEN SubSeq(s, from, Len(s))
      ELSE SubSeq(s, from, i - 1) \o new \o ReplaceFrom(s, i + Len(old), old, new)

\* str.replace(old, new), old non-empty: leftmost non-overlapping occurrences
Replace(s, old, new) == ReplaceFrom(s, 1, old, new)

RECURSIVE SplitFrom(_, _, _)
SplitFrom(s, sep, from) ==
  LET i == Find(s, from, sep)
  IN  IF i = 0 THEN <<SubSeq(s, from, Len(s))>>
      ELSE <<SubSeq(s, from, i - 1)>> \o SplitFrom(s, sep, i + Len(sep))

\* str.split(sep), sep non-empty
Split(s, sep) == SplitFrom(s, sep, 1)

RECURSIVE SplitWsFrom(_, _)
SplitWsFrom(s, from) ==
  LET word == {i \in from..Len(s) : s[i] \notin Whitespace}
      start == Min(word)
      space == {i \in start..Len(s) : s[i] \in Whitespace}
  IN  IF word = {} THEN <<>>
      ELSE IF space = {} THEN <<SubSeq(s, start, Len(s))>>
      ELSE <<SubSeq(s, start, Min(space) - 1)>> \o SplitWsFrom(s, Min(space))

\* str.split() without argument: split on runs of whitespace, no empty parts
SplitWs(s) == SplitWsFrom(s, 1)

RECURSIVE StrJoin(_, _)
\* sep.join(parts)
StrJoin(parts, sep) ==
  IF parts = <<>> THEN <<>>
  ELSE IF Len(parts) = 1 THEN parts[1]
  ELSE parts[1] \o sep \o StrJoin(Tail(parts), sep)

IsAlnumSpace(c) == c \in AlnumSpace

\* re.sub(r'[^a-z0-9 ]', '', s)
KeepAlnumSpace(s) == SelectSeq(s, IsAlnumSpace)

----------------------------------------------------------------------------
(* String literals used as inputs                                          *)

\* ""
nEmpty == <<>>
\* "..."
nDots == <<".",".",".">>
\* "Katz v. United States"
nKatz == <<"K","a","t","z"," ","v","."," ","U","n","i","t","e","d"," ","S","t","a","t","e","s">>
\* "Katz vs. United States"
nKatzVsDot == <<"K","a","t","z"," ","v","s","."," ","U","n","i","t","e","d"," ","S","t","a","t","e","s">>
\* "Katz vs United States"
nKatzVs == <<"K","a","t","z"," ","v","s"," ","U","n","i","t","e","d"," ","S","t","a","t","e","s">>
\* "Katz v US"
nKatzUS == <<"K","a","t","z"," ","v"," ","U","S">>
\* "Katz v. United States (Fourth Amendment)"
nKatzTopic == <<"K","a","t","z"," ","v","."," ","U","n","i","t","e","d"," ","S","t","a","t","e","s"," ","(","F","o","u","r","t","h"," ","A","m","e","n","d","m","e","n","t",")">>
\* "Roe v. Wade"
nRoe == <<"R","o","e"," ","v","."," ","W","a","d","e">>
\* "Roe v Wade"
nRoeInformal == <<"R","o","e"," ","v"," ","W","a","d","e">>
\* "Roe v. Wade, 410 U.S. 113"
nRoeCite == <<"R","o","e"," ","v","."," ","W","a","d","e",","," ","4","1","0"," ","U",".","S","."," ","1","1","3">>
\* "Doe v. Wade"
nDoe == <<"D","o","e"," ","v","."," ","W","a","d","e">>
\* "Harlow v. Fitzgerald"
nHarlow == <<"H","a","r","l","o","w"," ","v","."," ","F","i","t","z","g","e","r","a","l","d">>
\* "Harlow v. Fitzgerald, 457 U.S. 800"
nHarlowCite == <<"H","a","r","l","o","w"," ","v","."," ","F","i","t","z","g","e","r","a","l","d",","," ","4","5","7"," ","U",".","S","."," ","8","0","0">>
\* "Harlow v. Fitzgerald et al."
nHarlowEtAl == <<"H","a","r","l","o","w"," ","v","."," ","F","i","t","z","g","e","r","a","l","d"," ","e","t"," ","a","l",".">>
\* "Doe v. Roe v. Wade"
nTwoV == <<"D","o","e"," ","v","."," ","R","o","e"," ","v","."," ","W","a","d","e">>
\* "United States v. Jones"
nUSJones == <<"U","n","i","t","e","d"," ","S","t","a","t","e","s"," ","v","."," ","J","o","n","e","s">>
\* "United Airlines v. Jones"
nUnitedAirJones == <<"U","n","i","t","e","d"," ","A","i","r","l","i","n","e","s"," ","v","."," ","J","o","n","e","s">>
\* "In re Roe and Wade"
nInReRoe == <<"I","n"," ","r","e"," ","R","o","e"," ","a","n","d"," ","W","a","d","e">>
\* "Roe v. Wade (due process)"
nRoeTopic == <<"R","o","e"," ","v","."," ","W","a","d","e"," ","(","d","u","e"," ","p","r","o","c","e","s","s",")">>

\* " et al."
etAl == <<" ","e","t"," ","a","l",".">>

----------------------------------------------------------------------------
(* CaseFetcher._names_match                                                *)

sepVDot == <<" ","v","."," ">>

sepVsDot == <<" ","v","s","."," ">>

sepV == <<" ","v"," ">>

\* the prefix length of the party-prefix rule
PartyPrefixLen == 6

\* the inner function normalize(n) of _names_match
normalize(n) ==
  LET n1 == Strip(Lower(n))
      n2 == Replace(Replace(n1, sepVDot, sepV), sepVsDot, sepV)
      n3 == KeepAlnumSpace(n2)
  IN  StrJoin(SplitWs(n3), <<" ">>)

\* parts[k].strip()[:6]
PartyPrefix(part) == Prefix(Strip(part), PartyPrefixLen)

\* the party-prefix rule on the two split names
PartiesMatch(parts1, parts2) ==
  /\ Len(parts1) = 2
  /\ Len(parts2) = 2
  /\ PartyPrefix(parts1[1]) = PartyPrefix(parts2[1])
  /\ PartyPrefix(parts1[2]) = PartyPrefix(parts2[2])

\* _names_match from the two normalised names n1, n2 on, with the containment
\* test in one direction only
NormalizedMatchOneWay(n1, n2) ==
  IF Contains(n1, n2) THEN TRUE
  ELSE PartiesMatch(Split(n1, sepV), Split(n2, sepV))

\* _names_match from the two normalised names on, with a containment test
\* that an empty name does not pass
NormalizedMatch_not_empty(n1, n2) ==
  IF n1 # <<>> /\ n2 # <<>> /\ (Contains(n1, n2) \/ Contains(n2, n1)) THEN TRUE
  ELSE PartiesMatch(Split(n1, sepV), Split(n2, sepV))

\* _names_match from the two normalised names n1, n2 on
NormalizedMatch(n1, n2) ==
  IF Contains(n1, n2) \/ Contains(n2, n1) THEN TRUE
  ELSE PartiesMatch(Split(n1, sepV), Split(n2, sepV))

\* _names_match with the containment test in one direction only
_names_match_one_way(name1, name2) ==
  NormalizedMatchOneWay(normalize(name1), normalize(name2))

_names_match(name1, name2) ==
  NormalizedMatch(normalize(name1), normalize(name2))

----------------------------------------------------------------------------
(* Dictionaries. The value stored under "case_name" or "title" is a str,   *)
(* None (JSON null) or the key is missing.                                  *)

Str(s) == [k |-> "str", s |-> s]

Null == [k |-> "null", s |-> <<>>]

Missing == [k |-> "missing", s |-> <<>>]

\* a case dict as CourtListenerClient._parse_search_result builds it
CaseRecord(name) ==
  [case_name |-> name, source |-> "courtlistener", is_landmark |-> "absent", lm |-> 0]

\* an entry of LANDMARK_CASES
LandmarkEntry(name, id) ==
  [case_name |-> Str(name), source |-> "absent", is_landmark |-> "absent", lm |-> id]

\* a bill dict as CongressGovClient._parse_bill builds it
StatuteRecord(title) == [title |-> title, source |-> "congress_gov"]

\* d.get(key, ""): the default replaces a missing key only
Get(v) == IF v.k = "missing" THEN <<>> ELSE v.s

\* d.get(key, "").lower() raises AttributeError when the value is None
LowerRaises(v) == v.k = "null"

GetLower(v) == Lower(Get(v))

\* LANDMARK_CASES at process start: the topics in dictionary order, each with
\* its entries in list order. An entry keeps its case_name and the two keys
\* _check_landmark assigns ("absent" = the dict has no such key); lm is the
\* identity of the dict object (its position in the table), 0 for any dict
\* that is not an entry of the table.
LandmarkSeed ==
  <<
    \* "fourth amendment"
    [keyword |-> <<"f","o","u","r","t","h"," ","a","m","e","n","d","m","e","n","t">>,
     cases |-> <<
       \* Carpenter v. United States  (scotus.py:161)
       LandmarkEntry(<<"C","a","r","p","e","n","t","e","r"," ","v","."," ","U","n","i","t","e","d"," ","S","t","a","t","e","s">>, 1),
       \* Riley v. California  (scotus.py:162)
       LandmarkEntry(<<"R","i","l","e","y"," ","v","."," ","C","a","l","i","f","o","r","n","i","a">>, 2),
       \* Katz v. United States  (scotus.py:163)
       LandmarkEntry(<<"K","a","t","z"," ","v","."," ","U","n","i","t","e","d"," ","S","t","a","t","e","s">>, 3),
       \* Terry v. Ohio  (scotus.py:164)
       LandmarkEntry(<<"T","e","r","r","y"," ","v","."," ","O","h","i","o">>, 4),
       \* Mapp v. Ohio  (scotus.py:165)
       LandmarkEntry(<<"M","a","p","p"," ","v","."," ","O","h","i","o">>, 5) >>],
    \* "first amendment"
    [keyword |-> <<"f","i","r","s","t"," ","a","m","e","n","d","m","e","n","t">>,
     cases |-> <<
       \* Tinker v. Des Moines  (scotus.py:168)
       LandmarkEntry(<<"T","i","n","k","e","r"," ","v","."," ","D","e","s"," ","M","o","i","n","e","s">>, 6),
       \* New York Times Co. v. Sullivan  (scotus.py:169)
       LandmarkEntry(<<"N","e","w"," ","Y","o","r","k"," ","T","i","m","e","s"," ","C","o","."," ","v","."," ","S","u","l","l","i","v","a","n">>, 7),
       \* Brandenburg v. Ohio  (scotus.py:170)
       LandmarkEntry(<<"B","r","a","n","d","e","n","b","u","r","g"," ","v","."," ","O","h","i","o">>, 8),
       \* Citizens United v. FEC  (scotus.py:171)
       LandmarkEntry(<<"C","i","t","i","z","e","n","s"," ","U","n","i","t","e","d"," ","v","."," ","F","E","C">>, 9),
       \* Snyder v. Phelps  (scotus.py:172)
       LandmarkEntry(<<"S","n","y","d","e","r"," ","v","."," ","P","h","e","l","p","s">>, 10) >>],
    \* "equal protection"
    [keyword |-> <<"e","q","u","a","l"," ","p","r","o","t","e","c","t","i","o","n">>,
     cases |-> <<
       \* Brown v. Board of Education  (scotus.py:175)
       LandmarkEntry(<<"B","r","o","w","n"," ","v","."," ","B","o","a","r","d"," ","o","f"," ","E","d","u","c","a","t","i","o","n">>, 11),
       \* Students for Fair Admissions v. Harvard  (scotus.py:176)
       LandmarkEntry(<<"S","t","u","d","e","n","t","s"," ","f","o","r"," ","F","a","i","r"," ","A","d","m","i","s","s","i","o","n","s"," ","v","."," ","H","a","r","v","a","r","d">>, 12),
       \* Obergefell v. Hodges  (scotus.py:177)
       LandmarkEntry(<<"O","b","e","r","g","e","f","e","l","l"," ","v","."," ","H","o","d","g","e","s">>, 13),
       \* Loving v. Virginia  (scotus.py:178)
       LandmarkEntry(<<"L","o","v","i","n","g"," ","v","."," ","V","i","r","g","i","n","i","a">>, 14) >>],
    \* "due process"
    [keyword |-> <<"d","u","e"," ","p","r","o","c","e","s","s">>,
     cases |-> <<
       \* Mathews v. Eldridge  (scotus.py:181)
       LandmarkEntry(<<"M","a","t","h","e","w","s"," ","v","."," ","E","l","d","r","i","d","g","e">>, 15),
       \* Gideon v. Wainwright  (scotus.py:182)
       LandmarkEntry(<<"G","i","d","e","o","n"," ","v","."," ","W","a","i","n","w","r","i","g","h","t">>, 16),
       \* Miranda v. Arizona  (scotus.py:183)
       LandmarkEntry(<<"M","i","r","a","n","d","a"," ","v","."," ","A","r","i","z","o","n","a">>, 17),
       \* Roe v. Wade  (scotus.py:184)
       LandmarkEntry(<<"R","o","e"," ","v","."," ","W","a","d","e">>, 18),
       \* Dobbs v. Jackson  (scotus.py:185)
       LandmarkEntry(<<"D","o","b","b","s"," ","v","."," ","J","a","c","k","s","o","n">>, 19) >>],
    \* "qualified immunity"
    [keyword |-> <<"q","u","a","l","i","f","i","e","d"," ","i","m","m","u","n","i","t","y">>,
     cases |-> <<
       \* Harlow v. Fitzgerald  (scotus.py:188)
       LandmarkEntry(<<"H","a","r","l","o","w"," ","v","."," ","F","i","t","z","g","e","r","a","l","d">>, 20),
       \* Pearson v. Callahan  (scotus.py:189)
       LandmarkEntry(<<"P","e","a","r","s","o","n"," ","v","."," ","C","a","l","l","a","h","a","n">>, 21),
       \* Kisela v. Hughes  (scotus.py:190)
       LandmarkEntry(<<"K","i","s","e","l","a"," ","v","."," ","H","u","g","h","e","s">>, 22) >>],
    \* "second amendment"
    [keyword |-> <<"s","e","c","o","n","d"," ","a","m","e","n","d","m","e","n","t">>,
     cases |-> <<
       \* District of Columbia v. Heller  (scotus.py:193)
       LandmarkEntry(<<"D","i","s","t","r","i","c","t"," ","o","f"," ","C","o","l","u","m","b","i","a"," ","v","."," ","H","e","l","l","e","r">>, 23),
       \* McDonald v. City of Chicago  (scotus.py:194)
       LandmarkEntry(<<"M","c","D","o","n","a","l","d"," ","v","."," ","C","i","t","y"," ","o","f"," ","C","h","i","c","a","g","o">>, 24),
       \* New York State Rifle & Pistol Assn. v. Bruen  (scotus.py:195)
       LandmarkEntry(<<"N","e","w"," ","Y","o","r","k"," ","S","t","a","t","e"," ","R","i","f","l","e"," ","&"," ","P","i","s","t","o","l"," ","A","s","s","n","."," ","v","."," ","B","r","u","e","n">>, 25) >>],
    \* "executive power"
    [keyword |-> <<"e","x","e","c","u","t","i","v","e"," ","p","o","w","e","r">>,
     cases |-> <<
       \* Youngstown Sheet & Tube Co. v. Sawyer  (scotus.py:198)
       LandmarkEntry(<<"Y","o","u","n","g","s","t","o","w","n"," ","S","h","e","e","t"," ","&"," ","T","u","b","e"," ","C","o","."," ","v","."," ","S","a","w","y","e","r">>, 26),
       \* Trump v. Hawaii  (scotus.py:199)
       LandmarkEntry(<<"T","r","u","m","p"," ","v","."," ","H","a","w","a","i","i">>, 27),
       \* Nixon v. United States  (scotus.py:200)
       LandmarkEntry(<<"N","i","x","o","n"," ","v","."," ","U","n","i","t","e","d"," ","S","t","a","t","e","s">>, 28) >>],
    \* "section 1983"
    [keyword |-> <<"s","e","c","t","i","o","n"," ","1","9","8","3">>,
     cases |-> <<
       \* Monroe v. Pape  (scotus.py:203)
       LandmarkEntry(<<"M","o","n","r","o","e"," ","v","."," ","P","a","p","e">>, 29),
       \* Monell v. Department of Social Services  (scotus.py:204)
       LandmarkEntry(<<"M","o","n","e","l","l"," ","v","."," ","D","e","p","a","r","t","m","e","n","t"," ","o","f"," ","S","o","c","i","a","l"," ","S","e","r","v","i","c","e","s">>, 30),
       \* Graham v. Connor  (scotus.py:205)
       LandmarkEntry(<<"G","r","a","h","a","m"," ","v","."," ","C","o","n","n","o","r">>, 31) >>],
    \* "privacy"
    [keyword |-> <<"p","r","i","v","a","c","y">>,
     cases |-> <<
       \* Griswold v. Connecticut  (scotus.py:208)
       LandmarkEntry(<<"G","r","i","s","w","o","l","d"," ","v","."," ","C","o","n","n","e","c","t","i","c","u","t">>, 32),
       \* Carpenter v. United States  (scotus.py:209)
       LandmarkEntry(<<"C","a","r","p","e","n","t","e","r"," ","v","."," ","U","n","i","t","e","d"," ","S","t","a","t","e","s">>, 33),
       \* Riley v. California  (scotus.py:210)
       LandmarkEntry(<<"R","i","l","e","y"," ","v","."," ","C","a","l","i","f","o","r","n","i","a">>, 34) >>],
    \* "digital"
    [keyword |-> <<"d","i","g","i","t","a","l">>,
     cases |-> <<
       \* Carpenter v. United States  (scotus.py:213)
       LandmarkEntry(<<"C","a","r","p","e","n","t","e","r"," ","v","."," ","U","n","i","t","e","d"," ","S","t","a","t","e","s">>, 35),
       \* Riley v. California  (scotus.py:214)
       LandmarkEntry(<<"R","i","l","e","y"," ","v","."," ","C","a","l","i","f","o","r","n","i","a">>, 36),
       \* United States v. Jones  (scotus.py:215)
       LandmarkEntry(<<"U","n","i","t","e","d"," ","S","t","a","t","e","s"," ","v","."," ","J","o","n","e","s">>, 37) >>]
  >>


----------------------------------------------------------------------------
(* SCOTUSClient.search_by_topic and CaseFetcher._check_landmark            *)

\* s[:n] for a list
Take(s, n) == IF Len(s) <= n THEN s ELSE SubSeq(s, 1, n)

RECURSIVE RelevantCases(_, _, _)
\* the loop of search_by_topic: the entries (as <<topic index, entry index>>)
\* of every topic whose keyword occurs in topic_lower, in table order
RelevantCases(table, topic_lower, ti) ==
  IF ti > Len(table) THEN <<>>
  ELSE (IF Contains(table[ti].keyword, topic_lower)
          THEN [ei \in 1..Len(table[ti].cases) |-> <<ti, ei>>]
          ELSE <<>>)
       \o RelevantCases(table, topic_lower, ti + 1)

RECURSIVE EveryEntry(_, _)
\* the entries of every topic from the ti-th on, in table order
EveryEntry(table, ti) ==
  IF ti > Len(table) THEN <<>>
  ELSE [ei \in 1..Len(table[ti].cases) |-> <<ti, ei>>] \o EveryEntry(table, ti + 1)

\* a search that returns the whole table, whatever the topic
search_by_topic_whole_table(table, topic, max_results) == EveryEntry(table, 1)

search_by_topic(table, topic, max_results) ==
  Take(RelevantCases(table, Lower(topic), 1), max_results)

\* max_results passed by _check_landmark
LandmarkMaxResults == 3

\* the least element of a set of positions, 0 if there is none
FirstOf(S) == IF S = {} THEN 0 ELSE Min(S)

\* the loop of _check_landmark over landmarks: the first whose name matches
FirstLandmark(table, name_lower, landmarks) ==
  FirstOf({i \in 1..Len(landmarks) :
             _names_match(name_lower,
                          GetLower(table[landmarks[i][1]].cases[landmarks[i][2]].case_name))})

\* landmarks[hit], <<>> for None
LandmarkAt(landmarks, hit) == IF hit = 0 THEN <<>> ELSE landmarks[hit]

\* _check_landmark from the list landmarks on
CheckLandmarks(table, name_lower, landmarks) ==
  LandmarkAt(landmarks, FirstLandmark(table, name_lower, landmarks))

\* _check_landmark: the reference of the first landmark whose name matches,
\* <<>> for None
_check_landmark(table, case_name) ==
  CheckLandmarks(table, Lower(case_name),
                 search_by_topic(table, Lower(case_name), LandmarkMaxResults))

\* the two assignments of _check_landmark on the matched dict
Tagged(entry) == [entry EXCEPT !.source = "scotus_landmark", !.is_landmark = "true"]

\* the table after _check_landmark(case_name): the matched entry is the dict
\* object of the table itself (search_by_topic copies the list, not the dicts)
TableAfterCheck(table, ref) ==
  IF ref = <<>> THEN table
  ELSE [table EXCEPT ![ref[1]].cases[ref[2]] = Tagged(@)]

----------------------------------------------------------------------------
(* CaseFetcher._already_have and CaseFetcher._deduplicate                  *)

\* index of the first element of existing at which the loop of _already_have
\* stops: a name that matches, or a None name (AttributeError); 0 if none
AlreadyHaveStop(case, existing) ==
  FirstOf({i \in 1..Len(existing) :
             LowerRaises(existing[i].case_name)
             \/ _names_match(GetLower(case.case_name), GetLower(existing[i].case_name))})

\* the loop stopped at a None name
StopRaises(existing, stop) == stop > 0 /\ LowerRaises(existing[stop].case_name)

_already_have_raises(case, existing) ==
  LowerRaises(case.case_name) \/ StopRaises(existing, AlreadyHaveStop(case, existing))

\* _already_have comparing the names for equality instead of with _names_match
_already_have_exact(case, existing) ==
  \E i \in 1..Len(existing) : GetLower(existing[i].case_name) = GetLower(case.case_name)

_already_have(case, existing) == AlreadyHaveStop(case, existing) > 0

\* the truncation length of the dedup key
DedupKeyLen == 60

\* the key _deduplicate computes for a case name
DedupKey(v) ==
  Prefix(StrJoin(SplitWs(KeepAlnumSpace(Strip(GetLower(v)))), <<" ">>), DedupKeyLen)

\* _deduplicate reading cases[0] before its loop: IndexError on an empty list
_deduplicate_raises_on_empty(cases) ==
  cases = <<>> \/ \E i \in 1..Len(cases) : LowerRaises(cases[i].case_name)

_deduplicate_raises(cases) == \E i \in 1..Len(cases) : LowerRaises(cases[i].case_name)

RECURSIVE DedupLoop(_, _, _)
DedupLoop(cases, seen, unique) ==
  IF cases = <<>> THEN unique
  ELSE LET key == DedupKey(Head(cases).case_name)
       IN  IF key # <<>> /\ key \notin seen
             THEN DedupLoop(Tail(cases), seen \cup {key}, Append(unique, Head(cases)))
             ELSE DedupLoop(Tail(cases), seen, unique)

\* the positions of cases whose key an earlier record already has
Repeats(cases) ==
  {i \in 1..Len(cases) :
     \E j \in 1..(i - 1) : DedupKey(cases[j].case_name) = DedupKey(cases[i].case_name)}

\* cases without its element at position i (all of it for i = 0)
Without(cases, i) ==
  IF i = 0 THEN cases ELSE SubSeq(cases, 1, i - 1) \o SubSeq(cases, i + 1, Len(cases))

RECURSIVE DedupLoopAnyKey(_, _, _)
\* the loop of _deduplicate with "if key not in seen" for "if key and key not
\* in seen"
DedupLoopAnyKey(cases, seen, unique) ==
  IF cases = <<>> THEN unique
  ELSE IF DedupKey(Head(cases).case_name) \notin seen
    THEN DedupLoopAnyKey(Tail(cases), seen \cup {DedupKey(Head(cases).case_name)},
                         Append(unique, Head(cases)))
    ELSE DedupLoopAnyKey(Tail(cases), seen, unique)

\* _deduplicate keeping the first record with an empty key
_deduplicate_keeps_empty_key(cases) == DedupLoopAnyKey(cases, {}, <<>>)

\* _deduplicate dropping only the first record that repeats an earlier key
_deduplicate_once(cases) == Without(cases, FirstOf(Repeats(cases)))

_deduplicate(cases) == DedupLoop(cases, {}, <<>>)

----------------------------------------------------------------------------
(* CaseFetcher._best_match                                                 *)

RECURSIVE WsRun(_, _)
\* length of the run of whitespace that starts at position i
WsRun(s, i) == IF i <= Len(s) /\ s[i] \in Whitespace THEN 1 + WsRun(s, i + 1) ELSE 0

\* length of the match of \s+v\.?\s+ that starts at position i, 0 if none
ReMatchV(s, i) ==
  LET w == WsRun(s, i)
      j == i + w
  IN  IF w = 0 \/ j > Len(s) \/ s[j] # "v" THEN 0
      ELSE LET wdot == IF j + 1 <= Len(s) /\ s[j + 1] = "." THEN WsRun(s, j + 2) ELSE 0
               wnone == WsRun(s, j + 1)
           IN  IF wdot > 0 THEN w + 2 + wdot
               ELSE IF wnone > 0 THEN w + 1 + wnone
               ELSE 0

RECURSIVE ReSplitVAcc(_, _, _)
ReSplitVAcc(s, i, start) ==
  IF i > Len(s) THEN <<SubSeq(s, start, Len(s))>>
  ELSE LET m == ReMatchV(s, i)
       IN  IF m > 0 THEN <<SubSeq(s, start, i - 1)>> \o ReSplitVAcc(s, i + m, i + m)
           ELSE ReSplitVAcc(s, i + 1, start)

\* re.split(r'\s+v\.?\s+', s)
ReSplitV(s) == ReSplitVAcc(s, 1, 1)

\* the prefix length of the party-partial rule
PartialPrefixLen == 8

\* first loop of _best_match: index of the first result at which it stops (a
\* name that matches, or a None name), 0 if none
ExactStop(target, results) ==
  FirstOf({i \in 1..Len(results) :
             LowerRaises(results[i].case_name)
             \/ _names_match(target, GetLower(results[i].case_name))})

\* parts[k].strip()[:8]
PartialPrefix(part) == Prefix(Strip(part), PartialPrefixLen)

\* second loop of _best_match: the results that contain both party prefixes
PartialHits(parts, results) ==
  IF Len(parts) # 2 THEN {}
  ELSE {i \in 1..Len(results) :
          /\ Contains(PartialPrefix(parts[1]), GetLower(results[i].case_name))
          /\ Contains(PartialPrefix(parts[2]), GetLower(results[i].case_name))}

\* _best_match with its second loop (party-partial) run before its first
BestOf_partial_first(results, stop, partial) ==
  IF partial # {}
    THEN [raised |-> FALSE, rule |-> "partial", rec |-> <<results[Min(partial)]>>]
  ELSE IF StopRaises(results, stop)
    THEN [raised |-> TRUE, rule |-> "none", rec |-> <<>>]
  ELSE IF stop > 0
    THEN [raised |-> FALSE, rule |-> "exact", rec |-> <<results[stop]>>]
  ELSE IF results # <<>>
    THEN [raised |-> FALSE, rule |-> "first", rec |-> <<results[1]>>]
  ELSE [raised |-> FALSE, rule |-> "none", rec |-> <<>>]

\* what _best_match returns, given where its first loop stopped and what its
\* second loop found
BestOf(results, stop, partial) ==
  IF StopRaises(results, stop)
    THEN [raised |-> TRUE, rule |-> "none", rec |-> <<>>]
  ELSE IF stop > 0
    THEN [raised |-> FALSE, rule |-> "exact", rec |-> <<results[stop]>>]
  ELSE IF partial # {}
    THEN [raised |-> FALSE, rule |-> "partial", rec |-> <<results[Min(partial)]>>]
  ELSE IF results # <<>>
    THEN [raised |-> FALSE, rule |-> "first", rec |-> <<results[1]>>]
  ELSE [raised |-> FALSE, rule |-> "none", rec |-> <<>>]

\* _best_match from target = target_name.lower().strip() on
BestMatchFor(target, results) ==
  BestOf(results, ExactStop(target, results), PartialHits(ReSplitV(target), results))

\* "return results[0] if results else None" replaced by "return None"
NoFallback(best) ==
  IF best.rule = "first" THEN [raised |-> FALSE, rule |-> "none", rec |-> <<>>] ELSE best

\* _best_match without its first-candidate fallback
_best_match_no_fallback(target_name, results) ==
  NoFallback(BestMatchFor(Strip(Lower(target_name)), results))

\* _best_match: [raised, rule, rec]; rule is "exact", "partial", "first" or
\* "none", rec is <<r>> for a returned dict r and <<>> for None
_best_match(target_name, results) == BestMatchFor(Strip(Lower(target_name)), results)

----------------------------------------------------------------------------
(* Source adapters. What a source answers to a query is an input: a        *)
(* response is the parsed result list, or an exception that is not a       *)
(* RequestException (those, timeouts included, the clients turn into []).  *)

Response(recs) == [raise |-> FALSE, recs |-> recs]

Raises == [raise |-> TRUE, recs |-> <<>>]

\* search_opinions without the [:max_results] slice
search_opinions_uncapped(resp, max_results) == resp.recs

\* CourtListenerClient.search_opinions: data.get("results", [])[:max_results]
search_opinions(resp, max_results) == Take(resp.recs, max_results)

\* CongressGovClient.search_bills: bills[:max_results]
search_bills(resp, max_results) == Take(resp.recs, max_results)

\* max_results of the two queries of _fetch_case
CaseMaxResults == 3

\* max_results of _search_cases
SearchMaxResults == 5

\* max_results of _fetch_statute
StatuteMaxResults == 3

\* f'"{case_name}"'
Quoted(name) == <<"\"">> \o name \o <<"\"">>

\* the text of the first replace() of _fetch_statute: in the source file it is
\* the two characters U+0E22 U+0E07, not the section sign U+00A7; each is
\* written here by its code point
sectionSymbol == <<"U+0E22","U+0E07">>

uscText == <<"U",".","S",".","C",".">>

\* search_term of _fetch_statute
StatuteSearchTerm(statute_name) ==
  Strip(Replace(Replace(statute_name, sectionSymbol, <<>>), uscText, <<>>))

\* what a task returns: None, a dict (recs has one element) or a list;
\* calls are the queries it sent to its adapter, in order
NoneResult(calls) == [kind |-> "none", recs |-> <<>>, calls |-> calls]

DictResult(rec, calls) == [kind |-> "dict", recs |-> <<rec>>, calls |-> calls]

ListResult(recs, calls) == [kind |-> "list", recs |-> recs, calls |-> calls]

\* the unquoted query issued whenever the quoted one returned, records or not
NeedsSecondQuery_unless_raised(r1) == ~r1.raise

\* _fetch_case issues the unquoted query iff the quoted one returned nothing
NeedsSecondQuery(r1) == ~r1.raise /\ search_opinions(r1, CaseMaxResults) = <<>>

\* "return best" / "return self._best_match(...)": None if it raised
FromBest(best, calls) ==
  IF best.raised \/ best.rec = <<>> THEN NoneResult(calls)
  ELSE DictResult(best.rec[1], calls)

\* "if results: ... _best_match(case_name, results)" after the queries calls
Attempt(case_name, res, calls) ==
  IF res # <<>> THEN FromBest(_best_match(case_name, res), calls)
  ELSE NoneResult(calls)

\* _fetch_case(case_name) when the quoted query is answered r1 and the
\* unquoted one (if issued) r2
_fetch_case(case_name, r1, r2) ==
  IF r1.raise THEN NoneResult(<<Quoted(case_name)>>)
  ELSE IF ~NeedsSecondQuery(r1)
    THEN Attempt(case_name, search_opinions(r1, CaseMaxResults), <<Quoted(case_name)>>)
  ELSE IF r2.raise THEN NoneResult(<<Quoted(case_name), case_name>>)
  ELSE Attempt(case_name, search_opinions(r2, CaseMaxResults),
               <<Quoted(case_name), case_name>>)

\* _search_cases(query) when the query is answered r
_search_cases(query, r) ==
  IF r.raise THEN ListResult(<<>>, <<query>>)
  ELSE ListResult(search_opinions(r, SearchMaxResults), <<query>>)

\* "if results: return results[0]" with the whole list returned
FirstStatuteAll(res, calls) ==
  IF res # <<>> THEN ListResult(res, calls) ELSE NoneResult(calls)

\* "if results: return results[0]"
FirstStatute(res, calls) ==
  IF res # <<>> THEN DictResult(res[1], calls) ELSE NoneResult(calls)

\* _fetch_statute returning results instead of results[0]
_fetch_statute_all(statute_name, r) ==
  IF r.raise THEN NoneResult(<<StatuteSearchTerm(statute_name)>>)
  ELSE FirstStatuteAll(search_bills(r, StatuteMaxResults), <<StatuteSearchTerm(statute_name)>>)

\* _fetch_statute(statute_name) when the query is answered r
_fetch_statute(statute_name, r) ==
  IF r.raise THEN NoneResult(<<StatuteSearchTerm(statute_name)>>)
  ELSE FirstStatute(search_bills(r, StatuteMaxResults), <<StatuteSearchTerm(statute_name)>>)

----------------------------------------------------------------------------
(* Reconciliation: lines 75-84 of CaseFetcher.fetch                        *)

\* "if landmark and not self._already_have(landmark, results['cases'])" for
\* the dict landmark of the table
Enriched(cases, table, landmark) ==
  IF _already_have_raises(landmark, cases)
    THEN [raised |-> TRUE, cases |-> cases, table |-> table]
  ELSE IF ~_already_have(landmark, cases)
    THEN [raised |-> FALSE, cases |-> Append(cases, landmark), table |-> table]
  ELSE [raised |-> FALSE, cases |-> cases, table |-> table]

\* one iteration of the loop "for name in case_names", _check_landmark having
\* returned ref
LandmarkStep(cases, table, ref) ==
  IF ref = <<>> THEN [raised |-> FALSE, cases |-> cases, table |-> table]
  ELSE Enriched(cases, TableAfterCheck(table, ref),
                Tagged(table[ref[1]].cases[ref[2]]))

RECURSIVE LandmarkLoop(_, _, _)
\* the loop "for name in case_names" from its i-th iteration on, in state st
LandmarkLoop(names, i, st) ==
  IF i > Len(names) \/ st.raised THEN st
  ELSE LandmarkLoop(names, i + 1,
                    LandmarkStep(st.cases, st.table, _check_landmark(st.table, names[i])))

\* _deduplicate followed by landmark enrichment
Reconciled(names, cases, table) ==
  IF _deduplicate_raises(cases)
    THEN [raised |-> TRUE, cases |-> cases, table |-> table]
    ELSE LandmarkLoop(names, 1,
                      [raised |-> FALSE, cases |-> _deduplicate(cases), table |-> table])

----------------------------------------------------------------------------
(* Synthesizer._missing_statutes_text                                      *)

\* found_titles.add(s.get("title", "").lower()) raises on a None title
\* (reached only when identified is not empty)
_missing_statutes_raises(identified, found) ==
  identified # <<>> /\ \E i \in 1..Len(found) : LowerRaises(found[i].title)

found_titles(found) == {GetLower(found[i].title) : i \in 1..Len(found)}

\* was_found testing "name_lower in t" only
was_found_one_way(name, found) ==
  \E t \in found_titles(found) : Contains(Lower(name), t)

\* was_found of the loop over identified
was_found(name, found) ==
  \E t \in found_titles(found) : Contains(Lower(name), t) \/ Contains(t, Lower(name))

RECURSIVE MissingLoop(_, _)
\* the list missing
MissingLoop(identified, found) ==
  IF identified = <<>> THEN <<>>
  ELSE (IF ~was_found(Head(identified), found) THEN <<Head(identified)>> ELSE <<>>)
       \o MissingLoop(Tail(identified), found)

\* the returned text: one line "- name" per missing statute
_missing_statutes_text(identified, found) ==
  LET missing == MissingLoop(identified, found)
  IN  StrJoin([i \in 1..Len(missing) |-> <<"-", " ">> \o missing[i]], <<"\n">>)

----------------------------------------------------------------------------
(* Inputs                                                                  *)

\* "cell phone search"
qCellPhone == <<"c","e","l","l"," ","p","h","o","n","e"," ","s","e","a","r","c","h">>

\* "42 U.S.C. § 1983"
s1983 == <<"4","2"," ","U",".","S",".","C","."," ","§"," ","1","9","8","3">>

\* "Civil Rights Act"
tCivilRights == <<"C","i","v","i","l"," ","R","i","g","h","t","s"," ","A","c","t">>

\* "42 U.S.C. § 1983 Civil action"
tSection1983 == <<"4","2"," ","U",".","S",".","C","."," ","§"," ","1","9","8","3"," ","C","i","v","i","l"," ","a","c","t","i","o","n">>

\* "U.S.C."
tUSC == <<"U",".","S",".","C",".">>

\* longest case_names, statute_names and search_queries lists of a call
MaxCaseNames == 2

MaxStatuteNames == 1

MaxSearchQueries == 1

\* most tasks one call submits
MaxTasks == 2

SeqsUpTo(S, n) == UNION {[1..k -> S] : k \in 0..n}

CaseNameUniverse == {nKatzTopic, nRoeInformal}

StatuteNameUniverse == {s1983}

SearchQueryUniverse == {qCellPhone}

\* six records with six dedup keys: more than any max_results of the fetcher
SixRecords ==
  <<CaseRecord(Str(nKatzVs)), CaseRecord(Str(nRoeCite)), CaseRecord(Str(nRoe)),
    CaseRecord(Str(nHarlow)), CaseRecord(Str(nHarlowCite)), CaseRecord(Str(nTwoV))>>

\* what the case-search source may answer to a query
CLResponses ==
  { Raises,
    Response(<<>>),
    Response(<<CaseRecord(Str(nKatzVsDot))>>),
    Response(<<CaseRecord(Null)>>),
    Response(SixRecords) }

\* what the legislative source may answer to a query
CongressResponses ==
  { Raises,
    Response(<<>>),
    Response(<<StatuteRecord(Str(tCivilRights)), StatuteRecord(Str(tSection1983))>>),
    Response(<<StatuteRecord(Str(tUSC))>>),
    Response(<<StatuteRecord(Null)>>) }

----------------------------------------------------------------------------
(* State                                                                   *)

VARIABLES
  pc,               \* position of the calling thread
  case_names,       \* arguments of the running fetch call
  statute_names,
  search_queries,
  tstate,           \* per submitted task: "new", "queued", "running", "finished", "collected"
  tresult,          \* per task: what its future holds
  results,          \* the dict results of fetch
  LANDMARK_CASES,   \* the module-level table of scotus.py
  cl_world,         \* what the case-search source answered, per query
  congress_world,   \* what the legislative source answered, per query
  synth,            \* outcome of _missing_statutes_text in research
  probe,            \* arguments and result of a function applied on its own
  completion        \* the finished futures not yet yielded, in the order in which
                    \* they finished, and those of them that were finished when
                    \* as_completed was entered

vars == <<pc, case_names, statute_names, search_queries, tstate, tresult, results,
          LANDMARK_CASES, cl_world, congress_world, synth, probe, completion>>

\* ThreadPoolExecutor(max_workers=5)
max_workers == 5

\* the futures in submission order: cases, then statutes, then searches
TaskList(cn, sn, sq) ==
  [i \in 1..Len(cn) |-> [kind |-> "case", arg |-> cn[i]]]
  \o [i \in 1..Len(sn) |-> [kind |-> "statute", arg |-> sn[i]]]
  \o [i \in 1..Len(sq) |-> [kind |-> "search", arg |-> sq[i]]]

Tasks == TaskList(case_names, statute_names, search_queries)

NumTasks == Len(Tasks)

NoSynth == [done |-> FALSE, missing |-> <<>>, text |-> <<>>]

NoProbe == [op |-> "none"]

NoCompletion == [order |-> <<>>, finished |-> {}]

EmptyResults == [cases |-> <<>>, statutes |-> <<>>]

Init ==
  /\ pc = "Idle"
  /\ case_names = <<>>
  /\ statute_names = <<>>
  /\ search_queries = <<>>
  /\ tstate = <<>>
  /\ tresult = <<>>
  /\ results = EmptyResults
  /\ LANDMARK_CASES = LandmarkSeed
  /\ cl_world = <<>>
  /\ congress_world = <<>>
  /\ synth = NoSynth
  /\ completion = NoCompletion
  /\ probe = NoProbe

----------------------------------------------------------------------------
(* CaseFetcher.fetch                                                       *)

\* fetch(cn, sn, sq) is entered: results is created, the executor is opened
Call(cn, sn, sq) ==
  /\ pc = "Idle"
  /\ pc' = "Dispatching"
  /\ case_names' = cn
  /\ statute_names' = sn
  /\ search_queries' = sq
  /\ tstate' = [i \in 1..Len(TaskList(cn, sn, sq)) |-> "new"]
  /\ tresult' = [i \in 1..Len(TaskList(cn, sn, sq)) |-> NoneResult(<<>>)]
  /\ results' = EmptyResults
  /\ cl_world' = <<>>
  /\ congress_world' = <<>>
  /\ synth' = NoSynth
  /\ completion' = NoCompletion
  /\ UNCHANGED <<LANDMARK_CASES, probe>>

\* executor.submit of the next task, in the order of the three loops
Submit(t) ==
  /\ pc = "Dispatching"
  /\ t \in 1..NumTasks
  /\ tstate[t] = "new"
  /\ \A u \in 1..(t - 1) : tstate[u] # "new"
  /\ tstate' = [tstate EXCEPT ![t] = "queued"]
  /\ UNCHANGED <<pc, case_names, statute_names, search_queries, tresult, results,
                 LANDMARK_CASES, cl_world, congress_world, synth, probe, completion>>

\* all three submit loops are over: as_completed(futures) is entered
BeginCollect ==
  /\ pc = "Dispatching"
  /\ \A t \in 1..NumTasks : tstate[t] # "new"
  /\ pc' = "Collecting"
  /\ completion' = [completion EXCEPT
                      !.finished = {t \in 1..NumTasks : tstate[t] = "finished"}]
  /\ UNCHANGED <<case_names, statute_names, search_queries, tstate, tresult, results,
                 LANDMARK_CASES, cl_world, congress_world, synth, probe>>

Running == {t \in 1..NumTasks : tstate[t] = "running"}

\* an executor that starts a thread per submitted task, without max_workers
Start_unbounded(t) ==
  /\ t \in 1..NumTasks
  /\ tstate[t] = "queued"
  /\ \A u \in 1..(t - 1) : tstate[u] # "queued"
  /\ tstate' = [tstate EXCEPT ![t] = "running"]
  /\ UNCHANGED <<pc, case_names, statute_names, search_queries, tresult, results,
                 LANDMARK_CASES, cl_world, congress_world, synth, probe, completion>>

\* a worker thread takes the oldest queued task
Start(t) ==
  /\ t \in 1..NumTasks
  /\ tstate[t] = "queued"
  /\ \A u \in 1..(t - 1) : tstate[u] # "queued"
  /\ Cardinality(Running) < max_workers
  /\ tstate' = [tstate EXCEPT ![t] = "running"]
  /\ UNCHANGED <<pc, case_names, statute_names, search_queries, tresult, results,
                 LANDMARK_CASES, cl_world, congress_world, synth, probe, completion>>

\* the answers a source can give to query q: the one it already gave, if any
Answers(world, q, all) == IF q \in DOMAIN world THEN {world[q]} ELSE all

\* the task _fetch_case runs to its end
FinishCase(t) ==
  /\ Tasks[t].kind = "case"
  /\ \E r1 \in Answers(cl_world, Quoted(Tasks[t].arg), CLResponses) :
       \E r2 \in IF NeedsSecondQuery(r1)
                   THEN Answers(cl_world, Tasks[t].arg, CLResponses)
                   ELSE {Response(<<>>)} :
          /\ tresult' = [tresult EXCEPT ![t] = _fetch_case(Tasks[t].arg, r1, r2)]
          /\ cl_world' = IF NeedsSecondQuery(r1)
                           THEN (Quoted(Tasks[t].arg) :> r1) @@ (Tasks[t].arg :> r2) @@ cl_world
                           ELSE (Quoted(Tasks[t].arg) :> r1) @@ cl_world
  /\ UNCHANGED congress_world

\* the task _search_cases runs to its end
FinishSearch(t) ==
  /\ Tasks[t].kind = "search"
  /\ \E r \in Answers(cl_world, Tasks[t].arg, CLResponses) :
       /\ tresult' = [tresult EXCEPT ![t] = _search_cases(Tasks[t].arg, r)]
       /\ cl_world' = (Tasks[t].arg :> r) @@ cl_world
  /\ UNCHANGED congress_world

\* the task _fetch_statute runs to its end
FinishStatute(t) ==
  /\ Tasks[t].kind = "statute"
  /\ \E r \in Answers(congress_world, StatuteSearchTerm(Tasks[t].arg), CongressResponses) :
       /\ tresult' = [tresult EXCEPT ![t] = _fetch_statute(Tasks[t].arg, r)]
       /\ congress_world' = (StatuteSearchTerm(Tasks[t].arg) :> r) @@ congress_world
  /\ UNCHANGED cl_world

Finish(t) ==
  /\ t \in 1..NumTasks
  /\ tstate[t] = "running"
  /\ tstate' = [tstate EXCEPT ![t] = "finished"]
  /\ (FinishCase(t) \/ FinishSearch(t) \/ FinishStatute(t))
  /\ completion' = [completion EXCEPT !.order = Append(@, t)]
  /\ UNCHANGED <<pc, case_names, statute_names, search_queries, results,
                 LANDMARK_CASES, synth, probe>>

\* results after one iteration of "for future in as_completed(futures)"
Collected(res, kind, data) ==
  IF data.kind = "none" THEN res
  ELSE IF kind \in {"case", "search"}
    THEN [res EXCEPT !.cases = @ \o data.recs]
  ELSE [res EXCEPT !.statutes = @ \o data.recs]

\* the future as_completed yields next: one of those that were finished when
\* it was entered, in any order (it keeps them in a set); after them, the
\* others in the order in which they finished (waiter.finished_futures)
Yields(t) ==
  \/ t \in completion.finished
  \/ completion.finished = {} /\ completion.order # <<>> /\ Head(completion.order) = t

\* s without its elements equal to x
Remove(s, x) == SelectSeq(s, LAMBDA y : y # x)

\* as_completed yields a finished future; its data is accumulated
Collect(t) ==
  /\ pc = "Collecting"
  /\ t \in 1..NumTasks
  /\ tstate[t] = "finished"
  /\ Yields(t)
  /\ tstate' = [tstate EXCEPT ![t] = "collected"]
  /\ completion' = [order |-> Remove(completion.order, t),
                    finished |-> completion.finished \ {t}]
  /\ results' = Collected(results, Tasks[t].kind, tresult[t])
  /\ UNCHANGED <<pc, case_names, statute_names, search_queries, tresult,
                 LANDMARK_CASES, cl_world, congress_world, synth, probe>>

\* the with block left while futures are still to be collected
Join_early ==
  /\ pc = "Collecting"
  /\ pc' = "Reconciling"
  /\ UNCHANGED <<case_names, statute_names, search_queries, tstate, tresult, results,
                 LANDMARK_CASES, cl_world, congress_world, synth, probe, completion>>

\* as_completed is exhausted and the with block is left
Join ==
  /\ pc = "Collecting"
  /\ \A t \in 1..NumTasks : tstate[t] = "collected"
  /\ pc' = "Reconciling"
  /\ UNCHANGED <<case_names, statute_names, search_queries, tstate, tresult, results,
                 LANDMARK_CASES, cl_world, congress_world, synth, probe, completion>>

\* lines 75-84: _deduplicate, the landmark loop, return (or an exception
\* leaves fetch)
Reconcile ==
  /\ pc = "Reconciling"
  /\ \E r \in {Reconciled(case_names, results.cases, LANDMARK_CASES)} :
       /\ pc' = IF r.raised THEN "Raised" ELSE "Done"
       /\ results' = [results EXCEPT !.cases = r.cases]
       /\ LANDMARK_CASES' = r.table
  /\ UNCHANGED <<case_names, statute_names, search_queries, tstate, tresult,
                 cl_world, congress_world, synth, probe, completion>>

----------------------------------------------------------------------------
(* research (src/main.py): fetch(case_names, statute_names), then          *)
(* fetched["identified_statutes"] = statute_names and synthesize           *)

\* research reaches fetch only with a case or statute name, and passes no
\* search_queries
CalledAsResearch ==
  search_queries = <<>> /\ (case_names # <<>> \/ statute_names # <<>>)

Synthesize ==
  /\ pc = "Done"
  /\ CalledAsResearch
  /\ IF _missing_statutes_raises(statute_names, results.statutes)
       THEN pc' = "ResearchRaised" /\ synth' = synth
       ELSE /\ pc' = "Synthesized"
            /\ synth' = [done |-> TRUE,
                         missing |-> MissingLoop(statute_names, results.statutes),
                         text |-> _missing_statutes_text(statute_names, results.statutes)]
  /\ UNCHANGED <<case_names, statute_names, search_queries, tstate, tresult, results,
                 LANDMARK_CASES, cl_world, congress_world, probe, completion>>

\* the caller is done with the result; the process goes on
Return ==
  /\ pc \in {"Done", "Raised", "Synthesized", "ResearchRaised"}
  /\ pc' = "Idle"
  /\ case_names' = <<>>
  /\ statute_names' = <<>>
  /\ search_queries' = <<>>
  /\ tstate' = <<>>
  /\ tresult' = <<>>
  /\ results' = EmptyResults
  /\ cl_world' = <<>>
  /\ congress_world' = <<>>
  /\ synth' = NoSynth
  /\ completion' = NoCompletion
  /\ UNCHANGED <<LANDMARK_CASES, probe>>

Next ==
  \/ /\ pc = "Idle"
     /\ \E cn \in SeqsUpTo(CaseNameUniverse, MaxCaseNames),
           sn \in SeqsUpTo(StatuteNameUniverse, MaxStatuteNames),
           sq \in SeqsUpTo(SearchQueryUniverse, MaxSearchQueries) :
             Len(TaskList(cn, sn, sq)) <= MaxTasks /\ Call(cn, sn, sq)
  \/ \E t \in 1..NumTasks : Submit(t)
  \/ BeginCollect
  \/ \E t \in 1..NumTasks : Start(t)
  \/ \E t \in 1..NumTasks : Finish(t)
  \/ \E t \in 1..NumTasks : Collect(t)
  \/ Join
  \/ Reconcile
  \/ Synthesize
  \/ Return

Spec == Init /\ [][Next]_vars

----------------------------------------------------------------------------
(* The Name Matcher applied on its own to a pair of names                  *)

\* the names the matcher is applied to
MatcherNames ==
  { nEmpty, nDots, nKatz, nKatzVsDot, nKatzVs, nKatzUS, nKatzTopic, nRoe, nRoeInformal,
    nRoeCite, nDoe, nHarlow, nHarlowCite, nHarlowEtAl, nTwoV, nUSJones,
    nUnitedAirJones }

InitMatch ==
  /\ pc = "Probe"
  /\ case_names = <<>>
  /\ statute_names = <<>>
  /\ search_queries = <<>>
  /\ tstate = <<>>
  /\ tresult = <<>>
  /\ results = EmptyResults
  /\ LANDMARK_CASES = LandmarkSeed
  /\ cl_world = <<>>
  /\ congress_world = <<>>
  /\ synth = NoSynth
  /\ completion = NoCompletion
  /\ probe \in [op : {"names_match"}, a : MatcherNames, b : MatcherNames,
                done : {FALSE}, out : {FALSE}]

ApplyNamesMatch ==
  /\ pc = "Probe"
  /\ probe.op = "names_match"
  /\ ~probe.done
  /\ probe' = [probe EXCEPT !.done = TRUE, !.out = _names_match(probe.a, probe.b)]
  /\ UNCHANGED <<pc, case_names, statute_names, search_queries, tstate, tresult, results,
                 LANDMARK_CASES, cl_world, congress_world, synth, completion>>

NextMatch == ApplyNamesMatch

SpecMatch == InitMatch /\ [][NextMatch]_vars

----------------------------------------------------------------------------
(* _deduplicate applied on its own to a list of case records, and then to  *)
(* its own output                                                          *)

\* no fetch call is in progress
NoCall ==
  /\ pc = "Probe"
  /\ case_names = <<>>
  /\ statute_names = <<>>
  /\ search_queries = <<>>
  /\ tstate = <<>>
  /\ tresult = <<>>
  /\ results = EmptyResults
  /\ LANDMARK_CASES = LandmarkSeed
  /\ cl_world = <<>>
  /\ congress_world = <<>>
  /\ synth = NoSynth
  /\ completion = NoCompletion

\* longest list _deduplicate is applied to
MaxDedupLen == 3

\* the records of the lists: two with the same key, one with another key,
\* two with an empty key (punctuation only, no name) and one with a None name
DedupRecords ==
  { CaseRecord(Str(nKatzVs)), CaseRecord(Str(nKatzVsDot)), CaseRecord(Str(nRoe)),
    CaseRecord(Str(nDots)), CaseRecord(Missing), CaseRecord(Null) }

InitDedup ==
  /\ NoCall
  /\ probe \in [op : {"deduplicate"}, cases : SeqsUpTo(DedupRecords, MaxDedupLen),
                applied : {0}, raised : {FALSE}, once : {<<>>}, twice : {<<>>}]

\* unique = self._deduplicate(cases)
ApplyDeduplicate ==
  /\ pc = "Probe"
  /\ probe.op = "deduplicate"
  /\ probe.applied = 0
  /\ probe' = IF _deduplicate_raises(probe.cases)
                THEN [probe EXCEPT !.applied = 1, !.raised = TRUE]
                ELSE [probe EXCEPT !.applied = 1, !.once = _deduplicate(probe.cases)]
  /\ UNCHANGED <<pc, case_names, statute_names, search_queries, tstate, tresult, results,
                 LANDMARK_CASES, cl_world, congress_world, synth, completion>>

\* self._deduplicate(unique)
ApplyDeduplicateAgain ==
  /\ pc = "Probe"
  /\ probe.op = "deduplicate"
  /\ probe.applied = 1
  /\ ~probe.raised
  /\ probe' = IF _deduplicate_raises(probe.once)
                THEN [probe EXCEPT !.applied = 2, !.raised = TRUE]
                ELSE [probe EXCEPT !.applied = 2, !.twice = _deduplicate(probe.once)]
  /\ UNCHANGED <<pc, case_names, statute_names, search_queries, tstate, tresult, results,
                 LANDMARK_CASES, cl_world, congress_world, synth, completion>>

NextDedup == ApplyDeduplicate \/ ApplyDeduplicateAgain

SpecDedup == InitDedup /\ [][NextDedup]_vars

----------------------------------------------------------------------------
(* End-to-end scenarios: fetch called as research calls it, with adapters  *)
(* that give the same answer to every query (mocked adapters)              *)

Scenario(cn, sn, cl, congress) ==
  [case_names |-> cn, statute_names |-> sn, cl |-> cl, congress |-> congress]

\* A: ["Harlow v. Fitzgerald"], the adapter returns the name with its citation
ScenarioA ==
  Scenario(<<nHarlow>>, <<>>, Response(<<CaseRecord(Str(nHarlowCite))>>), Response(<<>>))

\* B: ["Katz v US"], the adapter returns "Katz v. United States"
ScenarioB ==
  Scenario(<<nKatzUS>>, <<>>, Response(<<CaseRecord(Str(nKatz))>>), Response(<<>>))

\* C: ["42 U.S.C. § 1983"], the adapter returns no results
ScenarioC == Scenario(<<>>, <<s1983>>, Response(<<>>), Response(<<>>))

\* D: ["Roe v Wade", "Roe v. Wade, 410 U.S. 113"], the adapter returns
\* "Roe v. Wade"
ScenarioD ==
  Scenario(<<nRoeInformal, nRoeCite>>, <<>>, Response(<<CaseRecord(Str(nRoe))>>),
           Response(<<>>))

\* D with a landmark: ["Katz v. United States (Fourth Amendment)",
\* "Katz vs United States"], the adapter returns "Katz vs United States"
ScenarioDLandmark ==
  Scenario(<<nKatzTopic, nKatzVs>>, <<>>, Response(<<CaseRecord(Str(nKatzVs))>>),
           Response(<<>>))

\* a name with a topic keyword whose landmark is the fourth entry of the
\* topic: ["Roe v. Wade (due process)"], the adapter returns no results
ScenarioFourthEntry == Scenario(<<nRoeTopic>>, <<>>, Response(<<>>), Response(<<>>))

\* ["Roe v Wade"], the adapter returns a record named "..."
ScenarioPunctuationName ==
  Scenario(<<nRoeInformal>>, <<>>, Response(<<CaseRecord(Str(nDots))>>), Response(<<>>))

\* ["Katz v. United States (Fourth Amendment)"], the adapter returns a record
\* without a case_name
ScenarioMissingName ==
  Scenario(<<nKatzTopic>>, <<>>, Response(<<CaseRecord(Missing)>>), Response(<<>>))

Scenarios ==
  {ScenarioA, ScenarioB, ScenarioC, ScenarioD, ScenarioDLandmark, ScenarioFourthEntry,
   ScenarioPunctuationName, ScenarioMissingName}

\* the queries fetch can send to the case-search source for these names
CaseQueries(cn) ==
  {Quoted(cn[i]) : i \in 1..Len(cn)} \cup {cn[i] : i \in 1..Len(cn)}

\* the queries fetch can send to the legislative source for these names
StatuteQueries(sn) == {StatuteSearchTerm(sn[i]) : i \in 1..Len(sn)}

\* fetch(sc.case_names, sc.statute_names) is entered with the adapters set up
\* to answer every query as the scenario says
CallScenario(sc) ==
  /\ pc = "Idle"
  /\ pc' = "Dispatching"
  /\ case_names' = sc.case_names
  /\ statute_names' = sc.statute_names
  /\ search_queries' = <<>>
  /\ tstate' = [i \in 1..Len(TaskList(sc.case_names, sc.statute_names, <<>>)) |-> "new"]
  /\ tresult' = [i \in 1..Len(TaskList(sc.case_names, sc.statute_names, <<>>))
                   |-> NoneResult(<<>>)]
  /\ results' = EmptyResults
  /\ cl_world' = [q \in CaseQueries(sc.case_names) |-> sc.cl]
  /\ congress_world' = [q \in StatuteQueries(sc.statute_names) |-> sc.congress]
  /\ synth' = NoSynth
  /\ completion' = NoCompletion
  /\ UNCHANGED <<LANDMARK_CASES, probe>>

NextScenario ==
  \/ \E sc \in Scenarios : CallScenario(sc)
  \/ \E t \in 1..NumTasks : Submit(t)
  \/ BeginCollect
  \/ \E t \in 1..NumTasks : Start(t)
  \/ \E t \in 1..NumTasks : Finish(t)
  \/ \E t \in 1..NumTasks : Collect(t)
  \/ Join
  \/ Reconcile
  \/ Synthesize
  \/ Return

SpecScenario == Init /\ [][NextScenario]_vars

----------------------------------------------------------------------------
(* _best_match applied on its own to a target name and a list of candidates *)

\* longest candidate list _best_match is applied to
MaxCandidates == 2

BestTargets == {nRoeInformal, nKatzUS, nDoe}

\* the candidates: names the matcher accepts for a target, one only the
\* party-partial rule accepts, one without a name and one with a None name
BestRecords ==
  { CaseRecord(Str(nKatz)), CaseRecord(Str(nRoe)), CaseRecord(Str(nRoeCite)),
    CaseRecord(Str(nInReRoe)), CaseRecord(Missing), CaseRecord(Str(nEmpty)),
    CaseRecord(Null) }

InitBest ==
  /\ NoCall
  /\ probe \in [op : {"best_match"}, target : BestTargets,
                results : SeqsUpTo(BestRecords, MaxCandidates),
                done : {FALSE}, out : {[raised |-> FALSE, rule |-> "none", rec |-> <<>>]}]

\* best = self._best_match(target, results)
ApplyBestMatch ==
  /\ pc = "Probe"
  /\ probe.op = "best_match"
  /\ ~probe.done
  /\ probe' = [probe EXCEPT !.done = TRUE, !.out = _best_match(probe.target, probe.results)]
  /\ UNCHANGED <<pc, case_names, statute_names, search_queries, tstate, tresult, results,
                 LANDMARK_CASES, cl_world, congress_world, synth, completion>>

NextBest == ApplyBestMatch

SpecBest == InitBest /\ [][NextBest]_vars

\* the matcher applied to a pair of names, or _best_match applied to a target
\* and a list of candidates
InitMatchBest == InitMatch \/ InitBest

NextMatchBest == ApplyNamesMatch \/ ApplyBestMatch

SpecMatchBest == InitMatchBest /\ [][NextMatchBest]_vars

----------------------------------------------------------------------------
(* fetch with more tasks than workers, against adapters that give the same *)
(* answer to every query                                                   *)

\* one task more than the pool has workers
PoolTasks == max_workers + 1

\* n times the element x
Repeat(x, n) == [i \in 1..n |-> x]

PoolCall(cn, sn, sq, cl, congress) ==
  [case_names |-> cn, statute_names |-> sn, search_queries |-> sq,
   cl |-> cl, congress |-> congress]

\* a call with more tasks than max_workers of one kind, whose source finds
\* nothing; one with tasks of all three kinds, whose sources find records; and
\* one with fewer tasks than max_workers, whose sources fail or return a
\* record with a None name
PoolCalls ==
  { PoolCall(<<>>, <<>>, Repeat(qCellPhone, PoolTasks), Response(<<>>), Response(<<>>)),
    PoolCall(Repeat(nRoeInformal, 2), Repeat(s1983, 2), Repeat(qCellPhone, PoolTasks - 4),
             Response(<<CaseRecord(Str(nRoe))>>),
             Response(<<StatuteRecord(Str(tCivilRights))>>)),
    PoolCall(<<nRoeInformal>>, <<s1983>>, <<qCellPhone>>,
             Response(<<CaseRecord(Null)>>), Raises) }

\* fetch(c.case_names, c.statute_names, c.search_queries) is entered with the
\* adapters set up to answer every query as the call says
CallPool(c) ==
  /\ pc = "Idle"
  /\ pc' = "Dispatching"
  /\ case_names' = c.case_names
  /\ statute_names' = c.statute_names
  /\ search_queries' = c.search_queries
  /\ tstate' = [i \in 1..Len(TaskList(c.case_names, c.statute_names, c.search_queries))
                  |-> "new"]
  /\ tresult' = [i \in 1..Len(TaskList(c.case_names, c.statute_names, c.search_queries))
                   |-> NoneResult(<<>>)]
  /\ results' = EmptyResults
  /\ cl_world' = [q \in CaseQueries(c.case_names) \cup CaseQueries(c.search_queries)
                    |-> c.cl]
  /\ congress_world' = [q \in StatuteQueries(c.statute_names) |-> c.congress]
  /\ synth' = NoSynth
  /\ completion' = NoCompletion
  /\ UNCHANGED <<LANDMARK_CASES, probe>>

NextPool ==
  \/ \E c \in PoolCalls : CallPool(c)
  \/ \E t \in 1..NumTasks : Submit(t)
  \/ BeginCollect
  \/ \E t \in 1..NumTasks : Start(t)
  \/ \E t \in 1..NumTasks : Finish(t)
  \/ \E t \in 1..NumTasks : Collect(t)
  \/ Join
  \/ Reconcile
  \/ Return

SpecPool == Init /\ [][NextPool]_vars

\* a step of the thread that called fetch inside the with block
CallerStep ==
  \/ \E t \in 1..NumTasks : Submit(t)
  \/ BeginCollect
  \/ \E t \in 1..NumTasks : Collect(t)
  \/ Join

\* lines 75-84 come to their end, by return or by an exception: the step
\* Reconcile, told by what it does to the position of the calling thread
ReconcileEnds == pc = "Reconciling" /\ pc' \in {"Done", "Raised"}

\* the task a worker runs comes to its end, whatever it returns: the steps
\* Finish(t), told by what they do to the state of the task
TaskEnds ==
  \E t \in 1..NumTasks :
    tstate[t] = "running" /\ tstate' = [tstate EXCEPT ![t] = "finished"]

\* a worker thread of the executor takes a task
WorkerStep == \E t \in 1..NumTasks : Start(t)

\* the calling thread runs on, the workers are scheduled, and every task comes
\* to its end (its adapter calls return, raise or time out)
PoolFairness ==
  /\ WF_vars(CallerStep)
  /\ WF_pc(ReconcileEnds)
  /\ WF_vars(WorkerStep)
  /\ WF_tstate(TaskEnds)

FairSpecPool == Init /\ [][NextPool]_vars /\ PoolFairness

----------------------------------------------------------------------------
(* research (src/main.py): identify, then fetch and synthesize             *)

\* "Is cell phone search legal?"
questionCellPhone == <<"I","s"," ","c","e","l","l"," ","p","h","o","n","e"," ","s","e","a","r","c","h"," ","l","e","g","a","l","?">>

\* the set stop of _fallback
StopWords ==
  { <<"w","h","a","t">>, <<"h","o","w">>, <<"i","s">>,
    <<"t","h","e">>, <<"i","n">>, <<"f","o","r">>,
    <<"h","a","s">>, <<"b","e","e","n">>, <<"a","r","e">>,
    <<"d","o","e","s">>, <<"d","o">>, <<"c","a","n">>,
    <<"a">>, <<"a","n">>, <<"o","f">>,
    <<"t","o">>, <<"a","n","d">>, <<"o","r">> }

\* w.strip("?.,!")
StripPunct(w) ==
  LET keep == {i \in 1..Len(w) : w[i] \notin {"?", ".", ",", "!"}}
  IN  IF keep = {} THEN <<>> ELSE SubSeq(w, Min(keep), Max(keep))

\* terms of _fallback: the words that are no stop words and longer than 3
FallbackTerms(words) ==
  LET kept == SelectSeq(words, LAMBDA w : w \notin StopWords /\ Len(w) > 3)
  IN  [i \in 1..Len(kept) |-> StripPunct(kept[i])]

Targets(cases, statutes, queries) ==
  [cases |-> cases, statutes |-> statutes, search_queries |-> queries]

\* CaseIdentifier._fallback: only a search query, made of the first 5 terms
_fallback(question) ==
  Targets(<<>>, <<>>,
          <<StrJoin(Take(FallbackTerms(SplitWs(Lower(question))), 5), <<" ">>)>>)

\* what identify can return for a question: the lists of a parsed response
\* (each empty or with one element), or the fallback when the model call fails
IdentifyOutcomes(question) ==
  { Targets(cn, sn, sq) :
      cn \in {<<>>, <<nKatzTopic>>},
      sn \in {<<>>, <<s1983>>},
      sq \in {<<>>, <<qCellPhone>>} }
  \cup {_fallback(question)}

\* targets = identifier.identify(question)
Identify(question, targets) ==
  /\ pc = "Idle"
  /\ pc' = "Identified"
  /\ probe' = [op |-> "research", question |-> question, targets |-> targets,
               step |-> "identified"]
  /\ UNCHANGED <<case_names, statute_names, search_queries, tstate, tresult, results,
                 LANDMARK_CASES, cl_world, congress_world, synth, completion>>

\* "if not case_names and not statute_names: ... return"
ResearchReturns ==
  /\ pc = "Identified"
  /\ probe.targets.cases = <<>>
  /\ probe.targets.statutes = <<>>
  /\ pc' = "Idle"
  /\ probe' = [probe EXCEPT !.step = "returned"]
  /\ UNCHANGED <<case_names, statute_names, search_queries, tstate, tresult, results,
                 LANDMARK_CASES, cl_world, congress_world, synth, completion>>

\* fetcher.fetch(case_names, statute_names) passing the search queries too
FetchArguments_with_queries(targets) ==
  [case_names |-> targets.cases, statute_names |-> targets.statutes,
   search_queries |-> targets.search_queries]

\* the arguments of fetcher.fetch(case_names, statute_names): search_queries
\* takes its default None, read as no queries
FetchArguments(targets) ==
  [case_names |-> targets.cases, statute_names |-> targets.statutes,
   search_queries |-> <<>>]

\* fetch is entered with the arguments args
EnterFetch(args) ==
  /\ pc' = "Dispatching"
  /\ case_names' = args.case_names
  /\ statute_names' = args.statute_names
  /\ search_queries' = args.search_queries
  /\ tstate' = [i \in 1..Len(TaskList(args.case_names, args.statute_names,
                                      args.search_queries)) |-> "new"]
  /\ tresult' = [i \in 1..Len(TaskList(args.case_names, args.statute_names,
                                       args.search_queries)) |-> NoneResult(<<>>)]
  /\ results' = EmptyResults
  /\ cl_world' = <<>>
  /\ congress_world' = <<>>
  /\ synth' = NoSynth
  /\ completion' = NoCompletion
  /\ UNCHANGED LANDMARK_CASES

\* fetched = fetcher.fetch(case_names, statute_names)
ResearchFetch ==
  /\ pc = "Identified"
  /\ probe.targets.cases # <<>> \/ probe.targets.statutes # <<>>
  /\ probe' = [probe EXCEPT !.step = "fetching"]
  /\ EnterFetch(FetchArguments(probe.targets))

NextResearch ==
  \/ \E targets \in IdentifyOutcomes(questionCellPhone) :
       Identify(questionCellPhone, targets)
  \/ ResearchReturns
  \/ ResearchFetch
  \/ \E t \in 1..NumTasks : Submit(t)
  \/ BeginCollect
  \/ \E t \in 1..NumTasks : Start(t)
  \/ \E t \in 1..NumTasks : Finish(t)
  \/ \E t \in 1..NumTasks : Collect(t)
  \/ Join
  \/ Reconcile
  \/ Synthesize
  \/ Return

SpecResearch == Init /\ [][NextResearch]_vars

----------------------------------------------------------------------------
(* Properties                                                              *)

\* the names of two case dicts match under the Name Matcher
CasesMatch(c, d) == _names_match(Get(c.case_name), Get(d.case_name))

KeySet(cases) == {DedupKey(cases[i].case_name) : i \in 1..Len(cases)}

\* C1: after fetch has returned, no two distinct entries of cases have
\* case names that match each other under _names_match.
C1_PairwiseNonMatching ==
  pc = "Done" =>
    \A i, j \in 1..Len(results.cases) :
      i # j => ~CasesMatch(results.cases[i], results.cases[j])

\* a task failed: its adapter raised, or it met a name that is None
TaskFailed(t) ==
  \E q \in DOMAIN cl_world :
    /\ \E k \in 1..Len(tresult[t].calls) : tresult[t].calls[k] = q
    /\ Tasks[t].kind \in {"case", "search"}
    /\ (cl_world[q].raise
        \/ \E k \in 1..Len(cl_world[q].recs) : cl_world[q].recs[k].case_name.k = "null")

\* C2: whatever the adapters do (raise, or return a record whose case_name is
\* missing or None), fetch returns without raising, a failing task contributes
\* nothing and every other task contributes its result.
C2_FetchNeverRaises ==
  /\ pc # "Raised"
  /\ pc = "Done" =>
       \A t \in 1..NumTasks :
         Tasks[t].kind \in {"case", "search"} =>
           /\ TaskFailed(t) => tresult[t].recs = <<>>
           /\ \A k \in 1..Len(tresult[t].recs) :
                \/ DedupKey(tresult[t].recs[k].case_name) = <<>>
                \/ DedupKey(tresult[t].recs[k].case_name) \in KeySet(results.cases)

\* C3: the landmark table always has the entries, fields and values it had
\* at process start.
C3_LandmarkTableUnchanged == LANDMARK_CASES = LandmarkSeed

RECURSIVE CollectedInOrder(_, _)
\* the accumulators when the futures complete in submission order
CollectedInOrder(t, res) ==
  IF t > NumTasks THEN res
  ELSE CollectedInOrder(t + 1, Collected(res, Tasks[t].kind, tresult[t]))

\* C4: with the adapter answers fixed, the set of dedup keys of the returned
\* cases is the one obtained when the tasks complete in submission order,
\* whatever the order in which they did complete.
C4_KeysIndependentOfOrder ==
  pc = "Done" =>
    KeySet(results.cases) =
      KeySet(Reconciled(case_names, CollectedInOrder(1, EmptyResults).cases,
                        LANDMARK_CASES).cases)

\* the task of the i-th requested statute
StatuteTask(i) == Len(case_names) + i

InMissing(name) == \E k \in 1..Len(synth.missing) : synth.missing[k] = name

\* C5: a requested statute is reported to the synthesizer as identified but
\* not found exactly when its own task retained no record.
C5_GapIffTaskRetainedNothing ==
  pc = "Synthesized" =>
    \A i \in 1..Len(statute_names) :
      InMissing(statute_names[i]) <=> tresult[StatuteTask(i)].kind = "none"

\* the requested statute has a corresponding entry in the statutes list: the
\* lowercased title contains the lowercased name, or the name the title
HasEntry(name, statutes) ==
  \E i \in 1..Len(statutes) :
    \/ Contains(Lower(name), Lower(Get(statutes[i].title)))
    \/ Contains(Lower(Get(statutes[i].title)), Lower(name))

\* C6: in _missing_statutes_text a requested statute without a corresponding
\* entry in the statutes list (title containment, either direction) is in the
\* not-found list; none is both not found and found; with an empty statutes
\* list every requested statute is not found.
C6_MissingStatutes ==
  pc = "Synthesized" =>
    /\ \A i \in 1..Len(statute_names) :
         /\ ~HasEntry(statute_names[i], results.statutes) => InMissing(statute_names[i])
         /\ ~(InMissing(statute_names[i]) /\ HasEntry(statute_names[i], results.statutes))
    /\ results.statutes = <<>> =>
         \A i \in 1..Len(statute_names) : InMissing(statute_names[i])

\* C6 witness: statutes were returned, none corresponds to the requested
\* statute, and it is listed as not found
C6_Witness ==
  /\ pc = "Synthesized"
  /\ results.statutes # <<>>
  /\ statute_names # <<>>
  /\ ~HasEntry(statute_names[1], results.statutes)
  /\ InMissing(statute_names[1])

\* the landmark entries _check_landmark finds for the requested names
LandmarkHits ==
  {_check_landmark(LANDMARK_CASES, case_names[i]) : i \in 1..Len(case_names)} \ {<<>>}

EntryOf(ref) == LANDMARK_CASES[ref[1]].cases[ref[2]]

\* positions of the cases that match dict c
Matching(c, cases) == {j \in 1..Len(cases) : CasesMatch(c, cases[j])}

\* C7: landmark enrichment never duplicates a case. No appended landmark
\* matches another entry of cases; and for a landmark found for a requested
\* name, cases holds as many matching entries as the adapters supplied, or
\* exactly one if they supplied none.
C7_LandmarkNeverDuplicates ==
  pc = "Done" =>
    /\ \A i, j \in 1..Len(results.cases) :
         (i # j /\ results.cases[i].lm > 0) =>
           ~CasesMatch(results.cases[i], results.cases[j])
    /\ \A ref \in LandmarkHits :
         LET all == Matching(EntryOf(ref), results.cases)
             fromAdapters == {j \in all : results.cases[j].lm = 0}
         IN  Cardinality(all) =
               IF fromAdapters = {} THEN 1 ELSE Cardinality(fromAdapters)

\* C7 witness: an adapter returned a record named like the landmark found for
\* a requested name, and cases holds that record only
C7_Witness ==
  /\ pc = "Done"
  /\ \E ref \in LandmarkHits :
       /\ Cardinality(Matching(EntryOf(ref), results.cases)) = 1
       /\ \A j \in Matching(EntryOf(ref), results.cases) : results.cases[j].lm = 0

\* number of requested case names for which _check_landmark finds an entry
LandmarkMatches ==
  Cardinality({i \in 1..Len(case_names) :
                 _check_landmark(LANDMARK_CASES, case_names[i]) # <<>>})

\* C8: the returned cases are never more than the requested case names plus
\* 5 per search query plus the landmark matches; a case task contributes at
\* most one record and at most one landmark is appended per requested name.
C8_CasesBound ==
  /\ \A t \in 1..NumTasks : Tasks[t].kind = "case" => Len(tresult[t].recs) <= 1
  /\ pc = "Done" =>
       /\ Len(results.cases) <=
            Len(case_names) + Len(search_queries) * 5 + LandmarkMatches
       /\ Cardinality({j \in 1..Len(results.cases) : results.cases[j].lm > 0})
            <= LandmarkMatches

\* C8 witness: a search answered with more than 5 records, of which exactly
\* the bound is returned
C8_Witness ==
  /\ pc = "Done"
  /\ \E q \in DOMAIN cl_world : Len(cl_world[q].recs) > 5
  /\ search_queries # <<>>
  /\ Len(results.cases) = Len(case_names) + Len(search_queries) * 5 + LandmarkMatches

\* C9: the statutes list never has more entries than there are requested
\* statute names; each statute task contributes at most one record.
C9_StatutesBound ==
  /\ Len(results.statutes) <= Len(statute_names)
  /\ \A t \in 1..NumTasks : Tasks[t].kind = "statute" => Len(tresult[t].recs) <= 1

\* C9 witness: the legislative source answered with two records and one is kept
C9_Witness ==
  /\ pc = "Done"
  /\ \E q \in DOMAIN congress_world : Len(congress_world[q].recs) >= 2
  /\ Len(results.statutes) = 1
  /\ Len(statute_names) = 1

\* C10: _names_match returns a boolean for every pair of names, and the same
\* one when its arguments are exchanged.
C10_MatcherSymmetric ==
  (probe.op = "names_match" /\ probe.done) =>
    /\ probe.out \in BOOLEAN
    /\ probe.out = _names_match(probe.b, probe.a)

\* C10 witness: two different names of which the first is contained in the
\* second (after normalisation), found to match
C10_Witness ==
  /\ probe.op = "names_match"
  /\ probe.done
  /\ probe.out = TRUE
  /\ probe.a # probe.b
  /\ Contains(normalize(probe.a), normalize(probe.b))
  /\ ~Contains(normalize(probe.b), normalize(probe.a))

\* two names that differ only by punctuation characters: the same once every
\* character that is not a letter, a digit or a space is removed
IsPunctuation(c) ==
  c \notin ({UpperLetters[i] : i \in 1..26} \cup AlnumSpace \cup Whitespace)

NotPunctuation(c) == ~IsPunctuation(c)

SameButPunctuation(a, b) == SelectSeq(a, NotPunctuation) = SelectSeq(b, NotPunctuation)

\* b is a followed by " et al."
TrailingEtAl(a, b) == b = a \o etAl

\* C11: two names that differ only by punctuation characters, or by a
\* trailing "et al.", match under _names_match.
C11_PunctuationAndEtAl ==
  (probe.op = "names_match" /\ probe.done) =>
    ((\/ SameButPunctuation(probe.a, probe.b)
      \/ TrailingEtAl(probe.a, probe.b)
      \/ TrailingEtAl(probe.b, probe.a)) => probe.out = TRUE)

\* the parties of a name: what stands on either side of the separator
Parties(name) == Split(normalize(name), sepV)

\* C12: two names of two parties each whose first parties differ do not match
\* under _names_match, whatever their second parties.
C12_FirstPartiesDiffer ==
  (probe.op = "names_match" /\ probe.done) =>
    ((/\ Len(Parties(probe.a)) = 2
      /\ Len(Parties(probe.b)) = 2
      /\ Strip(Parties(probe.a)[1]) # Strip(Parties(probe.b)[1])) => probe.out = FALSE)

\* C13: _deduplicate applied to its own output returns that output: the same
\* records in the same order.
C13_DedupIdempotent ==
  (probe.op = "deduplicate" /\ probe.applied = 2) =>
    (~probe.raised /\ probe.twice = probe.once)

\* C13 witness: the first application dropped a record and kept at least two,
\* and the second application has run
C13_Witness ==
  /\ probe.op = "deduplicate"
  /\ probe.applied = 2
  /\ ~probe.raised
  /\ Len(probe.once) < Len(probe.cases)
  /\ Len(probe.once) >= 2

\* the list of results that task t contributes to
ListOf(t) == IF Tasks[t].kind = "statute" THEN results.statutes ELSE results.cases

\* every record task t returned is in the list it contributes to
Contributed(t) ==
  \A k \in 1..Len(tresult[t].recs) :
    \E j \in 1..Len(ListOf(t)) : ListOf(t)[j] = tresult[t].recs[k]

\* C14: reconciliation does not start, and fetch does not return, before every
\* dispatched task has completed or failed and has been collected; when
\* reconciliation starts no task's contribution is missing from results.
C14_JoinBarrier ==
  /\ pc \in {"Reconciling", "Done", "Raised", "Synthesized", "ResearchRaised"} =>
       \A t \in 1..NumTasks : tstate[t] = "collected"
  /\ pc = "Reconciling" => \A t \in 1..NumTasks : Contributed(t)

\* C14 witness: fetch has returned from a call with two tasks that both
\* returned a record
C14_Witness ==
  /\ pc = "Done"
  /\ NumTasks = 2
  /\ \A t \in 1..NumTasks : tresult[t].recs # <<>> /\ tstate[t] = "collected"

\* a fetch call with no case names, no statute names and no search queries
\* is in progress or has ended
EmptyCall ==
  /\ pc # "Idle"
  /\ case_names = <<>>
  /\ statute_names = <<>>
  /\ search_queries = <<>>

\* C15: fetch called with empty case_names, statute_names and search_queries
\* does not raise, calls no adapter, and returns {cases: [], statutes: []}.
C15_EmptyInputs ==
  EmptyCall =>
    /\ pc # "Raised"
    /\ cl_world = <<>>
    /\ congress_world = <<>>
    /\ results = EmptyResults

\* C15 witness: fetch has returned from a call with all three lists empty
C15_Witness == EmptyCall /\ pc = "Done"

\* the record is the dict object of an entry of LANDMARK_CASES (its field lm
\* is the entry's number), not a dict made for this call
SharedWithTable(rec) == rec.lm > 0

\* C16: no record of the returned result set is shared with process-wide
\* state or with the result of another call: none is a dict object of the
\* landmark table.
C16_ResultOwnedByCaller ==
  pc = "Done" =>
    \A j \in 1..Len(results.cases) : ~SharedWithTable(results.cases[j])

\* the running or ended call is the one of scenario sc
InScenario(sc) ==
  /\ pc # "Idle"
  /\ case_names = sc.case_names
  /\ statute_names = sc.statute_names
  /\ search_queries = <<>>
  /\ \A q \in CaseQueries(sc.case_names) : q \in DOMAIN cl_world /\ cl_world[q] = sc.cl

\* C17: in scenario B fetch returns exactly 1 case, and _best_match selected
\* it by the Name Matcher (containment or party prefix), not by the partial
\* rule or the first-candidate fallback.
C17_ScenarioB ==
  (pc = "Done" /\ InScenario(ScenarioB)) =>
    /\ Len(results.cases) = 1
    /\ _best_match(nKatzUS, search_opinions(ScenarioB.cl, CaseMaxResults)).rule = "exact"

\* C18: when two different requested case names resolve to the same record,
\* the cases list fetch returns has exactly 1 entry, in every completion
\* order.
C18_ScenarioD ==
  (/\ pc = "Done"
   /\ Len(case_names) = 2
   /\ case_names[1] # case_names[2]
   /\ statute_names = <<>>
   /\ search_queries = <<>>
   /\ tresult[1].recs # <<>>
   /\ tresult[1].recs = tresult[2].recs) => Len(results.cases) = 1

\* every candidate has a display name: "case_name" is a str, or absent (and
\* then read as "")
HaveNames(candidates) ==
  \A i \in 1..Len(candidates) : ~LowerRaises(candidates[i].case_name)

\* the candidates whose display name matches the target under _names_match
Matches(target, candidates) ==
  {i \in 1..Len(candidates) : _names_match(target, Get(candidates[i].case_name))}

\* the candidates the party-partial rule accepts for the target
Partials(target, candidates) == PartialHits(ReSplitV(Strip(Lower(target))), candidates)

FinishedCaseTasks ==
  {t \in 1..NumTasks : Tasks[t].kind = "case" /\ tstate[t] \in {"finished", "collected"}}

\* what search_opinions returned to a case task for query q: [] also when the
\* client caught a RequestException; nothing is returned when it raised
Returned(q) == search_opinions(cl_world[q], CaseMaxResults)

\* the result set the task used: that of the last query it issued
UsedSet(t) == Returned(tresult[t].calls[Len(tresult[t].calls)])

\* C21: a case task issues the quoted query first, and the unquoted query
\* if and only if the quoted query returned no records; it makes at most two
\* adapter calls and returns at most one record, the one _best_match selects
\* from the result set that was used.
C21_QuotedThenUnquoted ==
  \A t \in FinishedCaseTasks :
    /\ Len(tresult[t].calls) \in {1, 2}
    /\ tresult[t].calls[1] = Quoted(Tasks[t].arg)
    /\ Len(tresult[t].calls) = 2 <=>
         (~cl_world[Quoted(Tasks[t].arg)].raise /\ Returned(Quoted(Tasks[t].arg)) = <<>>)
    /\ Len(tresult[t].calls) = 2 => tresult[t].calls[2] = Tasks[t].arg
    /\ Len(tresult[t].recs) <= 1
    /\ tresult[t].recs # <<>> =>
         /\ ~cl_world[tresult[t].calls[Len(tresult[t].calls)]].raise
         /\ tresult[t].recs = _best_match(Tasks[t].arg, UsedSet(t)).rec

\* C21 witness: one case task returned the record of its quoted query, another
\* got nothing for the quoted query and returned the record of the unquoted
C21_Witness ==
  /\ pc = "Collecting"
  /\ \E t, u \in FinishedCaseTasks :
       /\ Len(tresult[t].calls) = 1
       /\ tresult[t].recs # <<>>
       /\ Len(tresult[u].calls) = 2
       /\ tresult[u].recs # <<>>

\* the statute tasks that have run to their end
FinishedStatuteTasks ==
  {t \in 1..NumTasks : Tasks[t].kind = "statute" /\ tstate[t] \in {"finished", "collected"}}

\* the section sign U+00A7, as it stands in a requested statute name
sectionSign == <<"§">>

\* C22: the query text _fetch_statute passes to the legislative adapter
\* contains neither the section sign nor "U.S.C.", and the task keeps only
\* the first record the adapter returns.
C22_StatuteQueryStripped ==
  \A t \in FinishedStatuteTasks :
    /\ ~Contains(sectionSign, tresult[t].calls[1])
    /\ ~Contains(uscText, tresult[t].calls[1])
    /\ Len(tresult[t].recs) <= 1
    /\ tresult[t].recs # <<>> =>
         tresult[t].recs[1] = congress_world[tresult[t].calls[1]].recs[1]

\* the entries (as <<topic index, entry index>>) of every topic whose keyword
\* appears in the lowercased name
TopicEntries(name) ==
  UNION {{<<ti, ei>> : ei \in 1..Len(LANDMARK_CASES[ti].cases)} :
           ti \in {k \in 1..Len(LANDMARK_CASES) :
                     Contains(LANDMARK_CASES[k].keyword, Lower(name))}}

\* the entry matches the requested name under the Name Matcher
EntryMatchesName(ref, name) ==
  _names_match(Lower(name), GetLower(EntryOf(ref).case_name))

\* C23: landmark enrichment tests every landmark entry of every topic whose
\* keyword appears in the lowercased requested name: if such an entry matches
\* the requested name, the returned cases hold a case matching that entry (a
\* case that was already there, or the appended landmark entry).
C23_EveryTopicEntryTested ==
  pc = "Done" =>
    \A i \in 1..Len(case_names) :
      \A ref \in TopicEntries(case_names[i]) :
        EntryMatchesName(ref, case_names[i]) =>
          Matching(EntryOf(ref), results.cases) # {}

\* a task is taken by a worker only from the queue, and is never put back
ExecutedOnce ==
  \A t \in 1..NumTasks :
    /\ t \in DOMAIN tstate' =>
         /\ (tstate[t] # "running" /\ tstate'[t] = "running") => tstate[t] = "queued"
         /\ tstate[t] \in {"running", "finished", "collected"} =>
              tstate'[t] \in {"running", "finished", "collected"}
    /\ pc' = "Reconciling" => tstate[t] = "collected"

\* C24: at every moment of a fetch call at most 5 tasks are executing;
\* while 5 are executing the other submitted tasks wait in the queue; every
\* task is taken from the queue once, and has been executed when fetch goes
\* on to reconcile.
C24_BoundedWorkers ==
  /\ [](Cardinality(Running) <= 5)
  /\ [][ExecutedOnce]_vars

\* C24 witness: 5 tasks are executing and a sixth waits in the queue
C24_Witness ==
  /\ NumTasks > max_workers
  /\ Cardinality(Running) = max_workers
  /\ \E t \in 1..NumTasks : tstate[t] = "queued"

\* the steps of the calling thread through one fetch call
FetchOrder ==
  { <<"Idle", "Dispatching">>, <<"Dispatching", "Collecting">>,
    <<"Collecting", "Reconciling">>, <<"Reconciling", "Done">>, <<"Done", "Idle">> }

\* C25: every fetch call eventually reaches Done, also with more tasks than
\* workers, when every adapter call comes to an end and the threads are
\* scheduled fairly; it passes through Dispatching, Collecting and Reconciling
\* in that order.
C25_FetchTerminates ==
  /\ (pc = "Dispatching") ~> (pc = "Done")
  /\ [][pc' # pc => <<pc, pc'>> \in FetchOrder]_vars

\* the positions of the records that are the first of the list with their
\* dedup key, the empty key left out
FirstSeen(cases) ==
  {i \in 1..Len(cases) :
     /\ DedupKey(cases[i].case_name) # <<>>
     /\ \A j \in 1..(i - 1) : DedupKey(cases[j].case_name) # DedupKey(cases[i].case_name)}

RECURSIVE AtPositions(_, _, _)
\* the records of cases at the positions K, from position i on, in list order
AtPositions(cases, K, i) ==
  IF i > Len(cases) THEN <<>>
  ELSE (IF i \in K THEN <<cases[i]>> ELSE <<>>) \o AtPositions(cases, K, i + 1)

\* the first record of recs with dedup key k
RecordFor(recs, k) ==
  recs[Min({i \in 1..Len(recs) : DedupKey(recs[i].case_name) = k})]

\* the tasks that finished before task t and whose result is still to be
\* collected
FinishedBefore(t) ==
  {completion.order[j] : j \in {j \in 1..Len(completion.order) :
     \E i \in (j + 1)..Len(completion.order) : completion.order[i] = t}}

\* the result of task t is collected in this step
Collects(t) == t \in DOMAIN tstate' /\ tstate[t] = "finished" /\ tstate'[t] = "collected"

\* task t brings a record for a key that cases does not hold yet, and a task
\* that finished before t has another record for that key
OvertakesEarlier(t) ==
  \E u \in FinishedBefore(t) :
    \E k \in (KeySet(tresult[t].recs) \cap KeySet(tresult[u].recs))
                \ (KeySet(results.cases) \cup {<<>>}) :
      RecordFor(tresult[t].recs, k) # RecordFor(tresult[u].recs, k)

\* _deduplicate has kept the first record of each key, in input order (the
\* landmark loop appends after them)
KeepsFirstSeen ==
  (pc = "Reconciling" /\ pc' = "Done") =>
    SubSeq(results'.cases, 1, Cardinality(FirstSeen(results.cases)))
      = AtPositions(results.cases, FirstSeen(results.cases), 1)

\* C26: _deduplicate keeps, for each dedup key, only the first record seen
\* with that key, in input order; and the record retained for a key is the
\* one whose task completed first.
C26_FirstCompletedKept ==
  [][/\ KeepsFirstSeen
     /\ \A t \in 1..NumTasks : Collects(t) => ~OvertakesEarlier(t)]_vars

\* the records a case or search task returned that have an empty dedup key
EmptyKeyRecords(t) ==
  {k \in 1..Len(tresult[t].recs) :
     Tasks[t].kind # "statute" /\ DedupKey(tresult[t].recs[k].case_name) = <<>>}

\* C27: _deduplicate drops every record whose dedup key is empty: every
\* adapter-sourced case fetch returns has a non-empty dedup key, and no record
\* with an empty key that a task returned is among the returned cases.
C27_EmptyKeyDropped ==
  pc = "Done" =>
    /\ \A j \in 1..Len(results.cases) :
         results.cases[j].lm = 0 => DedupKey(results.cases[j].case_name) # <<>>
    /\ \A t \in 1..NumTasks : \A k \in EmptyKeyRecords(t) :
         \A j \in 1..Len(results.cases) : results.cases[j] # tresult[t].recs[k]

\* C27 witness: the only task of the call returned a record whose name is
\* made of punctuation; no other record exists, and cases is empty
C27_Witness ==
  /\ pc = "Done"
  /\ NumTasks = 1
  /\ EmptyKeyRecords(1) # {}
  /\ tresult[1].recs[1].case_name = Str(nDots)
  /\ results.cases = <<>>

\* some topic keyword of the landmark table occurs in the lowercased name
HasTopicKeyword(name) ==
  \E ti \in 1..Len(LandmarkSeed) : Contains(LandmarkSeed[ti].keyword, Lower(name))

\* the identity of the table entry _check_landmark returns for the name, 0 for
\* None
LandmarkOf(name) ==
  IF _check_landmark(LANDMARK_CASES, name) = <<>> THEN 0
  ELSE LANDMARK_CASES[_check_landmark(LANDMARK_CASES, name)[1]]
         .cases[_check_landmark(LANDMARK_CASES, name)[2]].lm

\* C29: for a requested case name that contains none of the topic keywords of
\* the landmark table, _check_landmark returns None; every landmark entry in
\* the cases fetch returns is the landmark of a requested name that contains a
\* keyword, so that with no such name the list holds adapter records only.
C29_NoKeywordNoLandmark ==
  /\ \A i \in 1..Len(case_names) :
       ~HasTopicKeyword(case_names[i]) => LandmarkOf(case_names[i]) = 0
  /\ pc = "Done" =>
       \A j \in 1..Len(results.cases) :
         results.cases[j].lm # 0 =>
           \E i \in 1..Len(case_names) :
             /\ HasTopicKeyword(case_names[i])
             /\ LandmarkOf(case_names[i]) = results.cases[j].lm

\* C29 witness: fetch returned for a name with a keyword and a name without
\* one; the list holds an adapter record and one landmark entry
C29_Witness ==
  /\ pc = "Done"
  /\ \E i \in 1..Len(case_names) : ~HasTopicKeyword(case_names[i])
  /\ \E i \in 1..Len(case_names) : HasTopicKeyword(case_names[i])
  /\ \E j \in 1..Len(results.cases) : results.cases[j].lm = 0
  /\ Cardinality({j \in 1..Len(results.cases) : results.cases[j].lm # 0}) = 1

\* the candidates whose display name normalizes to the empty string
Blank(candidates) ==
  {i \in 1..Len(candidates) :
     ~LowerRaises(candidates[i].case_name)
     /\ normalize(Get(candidates[i].case_name)) = <<>>}

\* a candidate without a display name comes before every other candidate
\* whose name matches the target, and the names before it can be read
BlankBeforeMatch(target, candidates) ==
  \E i \in Blank(candidates) :
    \A j \in 1..(i - 1) :
      /\ ~LowerRaises(candidates[j].case_name)
      /\ j \in Matches(target, candidates) => j \in Blank(candidates)

\* C30: a name that normalizes to the empty string matches every name under
\* _names_match, in both argument orders; so when a candidate with a missing
\* or empty case_name precedes the true match, _best_match returns the first
\* such candidate by its exact rule, whatever the target.
C30_EmptyNameMatchesAll ==
  /\ (probe.op = "names_match" /\ probe.done
        /\ (normalize(probe.a) = <<>> \/ normalize(probe.b) = <<>>))
       => probe.out
  /\ (probe.op = "best_match" /\ probe.done
        /\ BlankBeforeMatch(probe.target, probe.results))
       => /\ Blank(probe.results) \subseteq Matches(probe.target, probe.results)
          /\ ~probe.out.raised
          /\ probe.out.rule = "exact"
          /\ probe.out.rec = <<probe.results[Min(Blank(probe.results))]>>

\* C30 witness: a candidate without a case_name stands before one that names
\* the target, and _best_match has returned the nameless one
C30_Witness ==
  /\ probe.op = "best_match"
  /\ probe.done
  /\ probe.target = nRoeInformal
  /\ probe.results = <<CaseRecord(Missing), CaseRecord(Str(nRoe))>>
  /\ probe.out.rec = <<CaseRecord(Missing)>>

\* research is at work on a question for which identify gave no case name
\* and no statute name
NothingIdentified ==
  /\ probe.op = "research"
  /\ probe.targets.cases = <<>>
  /\ probe.targets.statutes = <<>>

\* C28: research never dispatches a search task, fetch being called without
\* search_queries; and when identify yields no case names and no statute
\* names (its fallback included, which yields only a search query), research
\* performs neither the fetch nor the synthesis step.
C28_ResearchSkipsSearch ==
  probe.op = "research" =>
    /\ search_queries = <<>>
    /\ \A t \in 1..NumTasks : Tasks[t].kind # "search"
    /\ NothingIdentified =>
         /\ pc \in {"Identified", "Idle"}
         /\ probe.step \in {"identified", "returned"}
         /\ tstate = <<>>
         /\ cl_world = <<>>
         /\ congress_world = <<>>
         /\ ~synth.done

\* C28 witness: identify fell back to a search query only, and research has
\* returned without a fetch
C28_Witness ==
  /\ NothingIdentified
  /\ probe.targets = _fallback(probe.question)
  /\ probe.targets.search_queries # <<>>
  /\ probe.step = "returned"
  /\ pc = "Idle"

\* a research call fetched for identified names that came with a search query
ResearchQueryIgnored ==
  /\ probe.op = "research"
  /\ probe.targets.search_queries # <<>>
  /\ pc = "Synthesized"

====
